---------------------------- MODULE Spec2Model ----------------------------
(***************************************************************************)
(* A model of eark's point-kinetics solver (src/eark/solver.py) and of the *)
(* Solution view (src/eark/solver.py, src/eark/solution.py).               *)
(*                                                                         *)
(* Numbers.  A Python/NumPy float is modelled as a record                  *)
(*   [k |-> "fin", num, den, ty]  the rational num/den in lowest terms     *)
(*   [k |-> "inf", num, den, ty]  +infinity (num = 1) or -infinity (-1)    *)
(*   [k |-> "nan", num, den, ty]  not-a-number                             *)
(* where ty is "py" for a Python scalar (int or float) and "np" for a      *)
(* NumPy scalar or array element.  A raised exception is                   *)
(*   [k |-> "raise", exc |-> <name>]                                       *)
(* Finite arithmetic is exact (rounding of the last bit of a double is not *)
(* modelled), except where the code turns a quotient into an integer:      *)
(* numpy.arange's length is computed with IEEE-754 binary64 division,      *)
(* modelled bit for bit (see F64Div).  Signed zeros are not distinguished. *)
(***************************************************************************)
EXTENDS Integers, Sequences, FiniteSets, TLC

VARIABLES dyn, dynPrev, hist, call, soln, acc

vars == <<dyn, dynPrev, hist, call, soln, acc>>

\* No function or accessor has been called yet.
NoCall == [fn |-> "none"]

\* solve has not been called yet.
NoSolve == [pc |-> "idle"]

---------------------------------------------------------------------------
(* Exact rational arithmetic with the special values of IEEE-754 and with  *)
(* Python's ZeroDivisionError.                                             *)

\* A raised exception.
Raise(e) == [k |-> "raise", exc |-> e]

Abs(x) == IF x < 0 THEN -x ELSE x

Sgn(x) == IF x < 0 THEN -1 ELSE IF x > 0 THEN 1 ELSE 0

RECURSIVE GCD(_, _)
GCD(a, b) == IF b = 0 THEN a ELSE GCD(b, a % b)

\* The rational p/q (q # 0) in lowest terms with a positive denominator.
Fin(p, q, type) ==
    LET g == GCD(Abs(p), Abs(q))
        s == IF q < 0 THEN -1 ELSE 1
    IN  [k |-> "fin", num |-> s * (p \div g), den |-> Abs(q) \div g, ty |-> type]

\* A Python scalar (an int or float literal or argument).
Py(p, q) == Fin(p, q, "py")

\* A NumPy float64 (an array element).
Np(p, q) == Fin(p, q, "np")

Inf(s, ty) == [k |-> "inf", num |-> s, den |-> 0, ty |-> ty]

NaN(ty) == [k |-> "nan", num |-> 0, den |-> 0, ty |-> ty]

IsRaise(a) == a.k = "raise"

IsFin(a) == a.k = "fin"

\* inf or nan
IsSpecial(a) == a.k \in {"inf", "nan"}

IsZero(a) == a.k = "fin" /\ a.num = 0

\* The mathematical value, without the Python type.
Val(a) == IF IsRaise(a) THEN a ELSE [k |-> a.k, num |-> a.num, den |-> a.den]

\* The type of the result of a binary operation: NumPy wins.
Ty(a, b) == IF a.ty = "np" \/ b.ty = "np" THEN "np" ELSE "py"

\* The sign of a non-nan value.
SignOf(a) == Sgn(a.num)

Neg(a) ==
    IF IsRaise(a) THEN a
    ELSE IF a.k = "nan" THEN a
    ELSE [a EXCEPT !.num = -a.num]

\* a + b
Add(a, b) ==
    IF IsRaise(a) THEN a
    ELSE IF IsRaise(b) THEN b
    ELSE IF a.k = "nan" \/ b.k = "nan" THEN NaN(Ty(a, b))
    ELSE IF a.k = "inf" /\ b.k = "inf"
         THEN IF a.num = b.num THEN Inf(a.num, Ty(a, b)) ELSE NaN(Ty(a, b))
    ELSE IF a.k = "inf" THEN Inf(a.num, Ty(a, b))
    ELSE IF b.k = "inf" THEN Inf(b.num, Ty(a, b))
    ELSE LET g == GCD(a.den, b.den)
             l == (a.den \div g) * b.den
         IN  Fin(a.num * (l \div a.den) + b.num * (l \div b.den), l, Ty(a, b))

\* a - b
Sub(a, b) == Add(a, Neg(b))

\* a * b
Mul(a, b) ==
    IF IsRaise(a) THEN a
    ELSE IF IsRaise(b) THEN b
    ELSE IF a.k = "nan" \/ b.k = "nan" THEN NaN(Ty(a, b))
    ELSE IF a.k = "inf" \/ b.k = "inf"
         THEN IF IsZero(a) \/ IsZero(b) THEN NaN(Ty(a, b))
              ELSE Inf(SignOf(a) * SignOf(b), Ty(a, b))
    ELSE LET g1 == GCD(Abs(a.num), b.den)
             g2 == GCD(Abs(b.num), a.den)
         IN  Fin((a.num \div g1) * (b.num \div g2),
                 (a.den \div g2) * (b.den \div g1), Ty(a, b))

\* a / b: Python's float.__truediv__ raises ZeroDivisionError on a zero
\* divisor, whatever the numerator (nan and the infinities included);
\* NumPy's true_divide returns nan (0/0, nan/0) or a signed infinity.
Div(a, b) ==
    IF IsRaise(a) THEN a
    ELSE IF IsRaise(b) THEN b
    ELSE IF IsZero(b) /\ Ty(a, b) = "py" THEN Raise("ZeroDivisionError")
    ELSE IF a.k = "nan" \/ b.k = "nan" THEN NaN(Ty(a, b))
    ELSE IF IsZero(b)
         THEN IF IsZero(a) THEN NaN("np")
              ELSE Inf(SignOf(a), "np")
    ELSE IF a.k = "inf"
         THEN IF b.k = "inf" THEN NaN(Ty(a, b))
              ELSE Inf(SignOf(a) * SignOf(b), Ty(a, b))
    ELSE IF b.k = "inf" THEN Fin(0, 1, Ty(a, b))
    ELSE Mul(a, Fin(b.den * Sgn(b.num), Abs(b.num), b.ty))


---------------------------------------------------------------------------
(* NumPy arrays are sequences of values; the Python index i is the TLA+    *)
(* index i + 1.  An array-valued result is [k |-> "arr", v |-> <<...>>].   *)

Arr(v) == [k |-> "arr", v |-> v]

\* A value stored into a float64 array.
ToNp(a) == IF IsRaise(a) THEN a ELSE [a EXCEPT !.ty = "np"]

\* a[i] for a one-dimensional array: a negative index counts from the end,
\* an index outside -len..len-1 raises IndexError.
PyIndex(a, i) ==
    LET j == IF i < 0 THEN i + Len(a) ELSE i
    IN  IF j < 0 \/ j >= Len(a) THEN Raise("IndexError") ELSE a[j + 1]

\* A slice bound as Python normalises it: negative bounds count from the
\* end, and the result is clamped to 0..len.
PyBound(len, i) ==
    LET j == IF i < 0 THEN i + len ELSE i
    IN  IF j < 0 THEN 0 ELSE IF j > len THEN len ELSE j

\* a[start:stop]
PySlice(a, start, stop) ==
    SubSeq(a, PyBound(Len(a), start) + 1, PyBound(Len(a), stop))

RECURSIVE SumProd(_, _, _)
SumProd(a, b, i) ==
    IF i = 0 THEN Np(0, 1) ELSE Add(SumProd(a, b, i - 1), Mul(a[i], b[i]))

\* np.inner(a, b) of two one-dimensional arrays.
Inner(a, b) ==
    IF Len(a) # Len(b) THEN Raise("ValueError") ELSE SumProd(a, b, Len(a))

\* total_neutron_deriv with the sign of beta slipped.
total_neutron_deriv_plus_beta(rho, beta, period, n, precursor_constants, precursor_density) ==
    Add(Mul(Div(Add(rho, beta), period), n),
        Inner(precursor_constants, precursor_density))

\* ((rho - beta) / period) * n + np.inner(precursor_constants, precursor_density)
total_neutron_deriv(rho, beta, period, n, precursor_constants, precursor_density) ==
    Add(Mul(Div(Sub(rho, beta), period), n),
        Inner(precursor_constants, precursor_density))

\* The length of an elementwise operation on one-dimensional arrays of
\* lengths la and lb, as NumPy broadcasts them: equal lengths, or a length
\* of 1 stretched to the other; -1 when the shapes do not broadcast.
BroadcastLen(la, lb) ==
    IF la = lb THEN la ELSE IF la = 1 THEN lb ELSE IF lb = 1 THEN la ELSE -1

\* Element i of an array taking part in a broadcast.
BroadcastElem(a, i) == IF Len(a) = 1 THEN a[1] ELSE a[i]

\* beta_vector * n / period - precursor_constants * precursor_density,
\* elementwise; shapes that do not broadcast raise ValueError.
delay_neutron_deriv(beta_vector, period, n, precursor_constants, precursor_density) ==
    LET lp == BroadcastLen(Len(precursor_constants), Len(precursor_density))
        lr == BroadcastLen(Len(beta_vector), lp)
    IN  IF IsRaise(n) THEN n
        ELSE IF lp = -1 \/ lr = -1 THEN Raise("ValueError")
        ELSE Arr([i \in 1..lr |->
                 ToNp(Sub(Div(Mul(BroadcastElem(beta_vector, i), n), period),
                          Mul(BroadcastElem(precursor_constants, i),
                              BroadcastElem(precursor_density, i))))])

\* (h / (M_M * C_M)) * (T_fuel - T_mod) - (2 * W_M / M_M) * (T_mod - T_in)
mod_temp_deriv(h, M_M, C_M, W_M, T_fuel, T_mod, T_in) ==
    Sub(Mul(Div(h, Mul(M_M, C_M)), Sub(T_fuel, T_mod)),
        Mul(Div(Mul(Py(2, 1), W_M), M_M), Sub(T_mod, T_in)))

\* fuel_temp_deriv with the parentheses of the temperature difference lost:
\* (n / (M_F * C_F)) - (h / (M_F * C_F)) * T_fuel - T_mod
fuel_temp_deriv_unparenthesised(n, M_F, C_F, h, T_fuel, T_mod) ==
    Sub(Sub(Div(n, Mul(M_F, C_F)), Mul(Div(h, Mul(M_F, C_F)), T_fuel)), T_mod)

\* (n / (M_F * C_F)) - ((h / (M_F * C_F)) * (T_fuel - T_mod))
fuel_temp_deriv(n, M_F, C_F, h, T_fuel, T_mod) ==
    Sub(Div(n, Mul(M_F, C_F)),
        Mul(Div(h, Mul(M_F, C_F)), Sub(T_fuel, T_mod)))

\* The arrays a call of _state_deriv can reach are objects of a heap: a
\* function from references to array values.  "arg" is the array passed
\* as state; "beta_vector" and "precursor_constants" are the arrays bound
\* as keyword arguments; "new" is the array the call allocates.
HeapAtCall(state, beta_vector, precursor_constants) ==
    ("arg" :> state) @@ ("beta_vector" :> beta_vector)
        @@ ("precursor_constants" :> precursor_constants)

\* A new array object: no existing object changes.
Alloc(heap, ref, v) ==
    [r \in DOMAIN heap \cup {ref} |-> IF r = ref THEN v ELSE heap[r]]

\* A write into an existing array object (a[:] = v, a *= x).
Store(heap, ref, v) == [heap EXCEPT ![ref] = v]

\* The values lines 138-141 compute from the heap, or the first
\* exception among them.  Arguments are evaluated before the call they
\* are passed to; the time t is accepted and not used.
state_deriv_values(heap, local, t, c) ==
    LET state == heap[local]
        n0 == PyIndex(state, 0)
        T7 == PyIndex(state, 7)
        T8 == PyIndex(state, 8)
        dndt == IF IsRaise(n0) THEN n0
                ELSE total_neutron_deriv(c.rho, c.total_beta, c.period, n0,
                         heap["precursor_constants"], PySlice(state, 1, -2))
        dcdt == delay_neutron_deriv(heap["beta_vector"], c.period, n0,
                         heap["precursor_constants"], PySlice(state, 1, -2))
        dT_moddt == IF IsRaise(T8) THEN T8 ELSE IF IsRaise(T7) THEN T7
                    ELSE mod_temp_deriv(c.h, c.M_M, c.C_M, c.W_M, T8, T7, c.T_in)
        dT_fueldt == fuel_temp_deriv(n0, c.M_F, c.C_F, c.h, T8, T7)
    IN  IF IsRaise(dndt) THEN dndt
        ELSE IF IsRaise(dcdt) THEN dcdt
        ELSE IF IsRaise(dT_moddt) THEN dT_moddt
        ELSE IF IsRaise(dT_fueldt) THEN dT_fueldt
        ELSE Arr(<<ToNp(dndt)>> \o dcdt.v \o <<ToNp(dT_moddt), ToNp(dT_fueldt)>>)

\* _state_deriv multiplying beta_vector by n in place (beta_vector *= n)
\* on the way to dcdt: the bound array accumulates from call to call.
state_deriv_run_accumulating(state, t, c) ==
    LET heap0 == HeapAtCall(state, c.beta_vector, c.precursor_constants)
        value == state_deriv_values(heap0, "arg", t, c)
        n0 == PyIndex(state, 0)
        scaled == [i \in 1..Len(c.beta_vector) |-> ToNp(Mul(c.beta_vector[i], n0))]
        heap1 == Store(heap0, "beta_vector", scaled)
    IN  IF IsRaise(value) THEN [heap |-> heap1, returns |-> value]
        ELSE [heap |-> Alloc(heap1, "new", value.v),
              returns |-> Arr(Alloc(heap1, "new", value.v)["new"])]

\* One run of _state_deriv's body: what it returns or raises, and the heap
\* it leaves.  Lines 138-141 only read.  Line 142 allocates the result
\* (np.concatenate) and binds the local name state to it; line 143 returns
\* the object the local name then refers to.
state_deriv_run(state, t, c) ==
    LET heap0 == HeapAtCall(state, c.beta_vector, c.precursor_constants)
        value == state_deriv_values(heap0, "arg", t, c)
        heap1 == Alloc(heap0, "new", value.v)
        local1 == "new"
    IN  IF IsRaise(value) THEN [heap |-> heap0, returns |-> value]
        ELSE [heap |-> heap1, returns |-> Arr(heap1[local1])]

\* The derivative array of _state_deriv, or the exception it raises; c is
\* the bundle of keyword arguments bound by functools.partial in solve.
state_deriv(state, t, c) == state_deriv_run(state, t, c).returns

\* The caller's array after a call of _state_deriv.
state_after_deriv(state, t, c) == state_deriv_run(state, t, c).heap["arg"]

\* The keyword arguments after a call of _state_deriv: the scalars are
\* immutable, the arrays are what the heap holds.
consts_after_deriv(state, t, c) ==
    [c EXCEPT !.precursor_constants =
                  state_deriv_run(state, t, c).heap["precursor_constants"],
              !.beta_vector = state_deriv_run(state, t, c).heap["beta_vector"]]


---------------------------------------------------------------------------
(* IEEE-754 binary64 division, for numpy.arange's length.  A positive      *)
(* double is <<hi, lo, e>>: the 53-bit significand is hi * 2^26 + lo with  *)
(* 2^26 <= hi < 2^27 and 0 <= lo < 2^26, and the value is                  *)
(* significand * 2^e.  Two-limb numbers <<hi, lo>> keep every intermediate *)
(* below 2^31.                                                             *)

\* 2^26, the limb base.
Limb == 67108864

RECURSIVE Pow2(_)
Pow2(i) == IF i = 0 THEN 1 ELSE 2 * Pow2(i - 1)

BigGe(x, y) == x[1] > y[1] \/ (x[1] = y[1] /\ x[2] >= y[2])

BigSub(x, y) ==
    IF x[2] >= y[2] THEN <<x[1] - y[1], x[2] - y[2]>>
    ELSE <<x[1] - y[1] - 1, x[2] + Limb - y[2]>>

BigDouble(x) == <<2 * x[1] + ((2 * x[2]) \div Limb), (2 * x[2]) % Limb>>

BigSucc(x) ==
    IF x[2] + 1 = Limb THEN <<x[1] + 1, 0>> ELSE <<x[1], x[2] + 1>>

RECURSIVE F64Normalise(_, _)
F64Normalise(x, e) ==
    IF x >= Limb THEN <<x, 0, e - 26>> ELSE F64Normalise(2 * x, e - 1)

\* The double of an integer 1 <= x < 2^27 (exact).
F64FromInt(x) == F64Normalise(x, 0)

\* Long division: i more quotient bits of r / m, appended to the quotient q
\* (r < m, so the doubled remainder stays below 2^54).
RECURSIVE F64DivBits(_, _, _, _)
F64DivBits(r, m, q, i) ==
    IF i = 0 THEN <<q, r>>
    ELSE IF BigGe(BigDouble(r), m)
         THEN F64DivBits(BigSub(BigDouble(r), m), m, BigSucc(BigDouble(q)), i - 1)
         ELSE F64DivBits(BigDouble(r), m, BigDouble(q), i - 1)

\* i >= 36 quotient bits, produced in three runs of F64DivBits.
F64DivRuns(r, m, q, i) ==
    LET x1 == F64DivBits(r, m, q, 18)
        x2 == F64DivBits(x1[2], m, x1[1], 18)
    IN  F64DivBits(x2[2], m, x2[1], i - 36)

\* a / b for positive doubles, rounded to nearest, ties to even.
F64Div(a, b) ==
    LET ma == <<a[1], a[2]>>
        mb == <<b[1], b[2]>>
        ge == BigGe(ma, mb)
        qr == IF ge THEN F64DivRuns(BigSub(ma, mb), mb, <<0, 1>>, 52)
              ELSE F64DivRuns(ma, mb, <<0, 0>>, 53)
        q == qr[1]
        r2 == BigDouble(qr[2])
        up == (r2 # mb /\ BigGe(r2, mb)) \/ (r2 = mb /\ q[2] % 2 = 1)
        qu == IF up THEN BigSucc(q) ELSE q
        e == a[3] - b[3] - (IF ge THEN 52 ELSE 53)
    IN  IF qu[1] = 2 * Limb THEN <<Limb, 0, e + 1>> ELSE <<qu[1], qu[2], e>>

\* The smallest integer >= a positive double below 2^31.
F64Ceil(a) ==
    LET s == -a[3]
    IN  IF s <= 0 THEN (a[1] * Limb + a[2]) * Pow2(-s)
        ELSE IF s > 52 THEN 1
        ELSE IF s >= 26
             THEN (a[1] \div Pow2(s - 26))
                  + (IF a[1] % Pow2(s - 26) # 0 \/ a[2] # 0 THEN 1 ELSE 0)
        ELSE a[1] * Pow2(26 - s) + (a[2] \div Pow2(s))
             + (IF a[2] % Pow2(s) # 0 THEN 1 ELSE 0)

\* The double nearest to the positive rational p / q (p, q < 2^27).
F64FromRational(p, q) == F64Div(F64FromInt(p), F64FromInt(q))

---------------------------------------------------------------------------
(* Inputs.  Scalars are Python numbers, as a caller of solve passes them;  *)
(* arrays hold float64 elements.                                           *)

\* The example of total_neutron_deriv's docstring.
ExRho == Py(375, 100000)

ExBeta == Py(75, 10000)

ExPeriod == Py(6, 100000)

ExN == Py(4000, 1)

ExPrecursorConstants ==
    <<Np(124, 10000), Np(305, 10000), Np(1110, 10000),
      Np(3011, 10000), Np(11400, 10000), Np(30100, 10000)>>

ExPrecursorDensity ==
    <<Np(5000, 1), Np(6000, 1), Np(5600, 1), Np(4700, 1), Np(7800, 1), Np(6578, 1)>>

\* A second vector of decay constants and of densities, with small entries.
SmallConstants == <<Np(1, 1), Np(1, 2), Np(2, 1), Np(0, 1), Np(1, 4), Np(3, 1)>>

SmallDensity == <<Np(2, 1), Np(4, 1), Np(0, 1), Np(1, 1), Np(8, 1), Np(1, 3)>>

SmallBetaVector == <<Np(1, 2), Np(0, 1), Np(1, 4), Np(1, 1), Np(1, 8), Np(2, 1)>>

\* The largest numerator of the scalar inputs.
MaxScalar == 2

\* Python scalars 0, 1/2, 1, ..., MaxScalar.
PyScalars == {Py(i, 1) : i \in 0..MaxScalar} \cup {Py(1, 2)}

PyNonZero == {x \in PyScalars : ~IsZero(x)}

\* Zero and one non-zero value: the inputs of the zero-period cases.
PyZeroOr(x) == {Py(0, 1), x}

\* A mass and a heat capacity: both non-zero, a zero mass, a zero capacity.
MassAndCapacity ==
    {<<Py(2, 1), Py(1, 2)>>, <<Py(0, 1), Py(1, 2)>>, <<Py(2, 1), Py(0, 1)>>}

\* The neutron population: a float64 read from the state array, or a
\* Python number given by a direct caller.
NValues == {Np(2, 1), Py(4, 1)}

\* Temperatures read from the state array.
TempValues == {Np(3, 1), Np(5, 1)}

---------------------------------------------------------------------------
(* The physics functions called directly.  dyn is the last call, dynPrev   *)
(* the temperature-derivative call before it (if the last two calls were   *)
(* of the same temperature function).                                      *)

\* The arguments total_neutron_deriv is called with: the docstring's
\* example and every combination of the small inputs.
TotalNeutronArgs ==
    {[rho |-> ExRho, beta |-> ExBeta, period |-> ExPeriod, n |-> ExN,
      precursor_constants |-> ExPrecursorConstants,
      precursor_density |-> ExPrecursorDensity]}
    \cup [rho : PyScalars, beta : {Py(1, 1), Py(1, 4)},
          period : PyScalars, n : NValues,
          precursor_constants : {SmallConstants},
          precursor_density : {SmallDensity}]

CallTotalNeutronDeriv ==
    \E a \in TotalNeutronArgs :
        /\ dyn' = [fn |-> "total_neutron_deriv", args |-> a,
                   ret |-> total_neutron_deriv(a.rho, a.beta, a.period, a.n,
                               a.precursor_constants, a.precursor_density)]
        /\ dynPrev' = NoCall
        /\ UNCHANGED <<hist, call, soln, acc>>

CallDelayNeutronDeriv ==
    \E period \in PyScalars, n \in NValues,
       bv \in {SmallBetaVector}, pc \in {SmallConstants}, pd \in {SmallDensity} :
        /\ dyn' = [fn |-> "delay_neutron_deriv",
                   args |-> [period |-> period, n |-> n,
                             precursor_constants |-> pc, precursor_density |-> pd,
                             beta_vector |-> bv],
                   ret |-> delay_neutron_deriv(bv, period, n, pc, pd)]
        /\ dynPrev' = NoCall
        /\ UNCHANGED <<hist, call, soln, acc>>

CallModTempDeriv ==
    \E h \in {Py(0, 1), Py(MaxScalar, 1)}, MC \in MassAndCapacity,
       W_M \in {Py(1, 1)}, T_fuel \in TempValues, T_mod \in {Np(1, 1)},
       T_in \in {Py(1, 1)} :
        /\ dyn' = [fn |-> "mod_temp_deriv",
                   args |-> [h |-> h, M_M |-> MC[1], C_M |-> MC[2], W_M |-> W_M,
                             T_fuel |-> T_fuel, T_mod |-> T_mod, T_in |-> T_in],
                   ret |-> mod_temp_deriv(h, MC[1], MC[2], W_M, T_fuel, T_mod, T_in)]
        /\ dynPrev' = IF dyn.fn = "mod_temp_deriv" THEN dyn ELSE NoCall
        /\ UNCHANGED <<hist, call, soln, acc>>

CallFuelTempDeriv ==
    \E n \in {Np(2, 1)}, MC \in MassAndCapacity,
       h \in {Py(0, 1), Py(MaxScalar, 1)}, T_fuel \in TempValues,
       T_mod \in {Np(1, 1), Np(3, 1)} :
        /\ dyn' = [fn |-> "fuel_temp_deriv",
                   args |-> [n |-> n, h |-> h, T_fuel |-> T_fuel, T_mod |-> T_mod,
                             M_F |-> MC[1], C_F |-> MC[2]],
                   ret |-> fuel_temp_deriv(n, MC[1], MC[2], h, T_fuel, T_mod)]
        /\ dynPrev' = IF dyn.fn = "fuel_temp_deriv" THEN dyn ELSE NoCall
        /\ UNCHANGED <<hist, call, soln, acc>>

\* Keyword arguments with no zero among them.
RegularBundle ==
    [rho |-> Py(1, 2), period |-> Py(1, 2),
     precursor_constants |-> SmallConstants, beta_vector |-> SmallBetaVector,
     h |-> Py(MaxScalar, 1), M_M |-> Py(2, 1), C_M |-> Py(1, 2),
     W_M |-> Py(1, 1), T_in |-> Py(1, 1), M_F |-> Py(2, 1),
     C_F |-> Py(1, 2), total_beta |-> Py(1, 1)]

\* The keyword arguments solve binds with functools.partial: the regular
\* bundle, and the bundle with the period, a mass or a heat capacity zero.
ConstBundles ==
    {RegularBundle}
        \cup {[RegularBundle EXCEPT ![f] = Py(0, 1)] :
                 f \in {"period", "M_M", "C_M", "M_F", "C_F"}}

\* Bundles with no zero period, mass or heat capacity.
RegularBundles ==
    {c \in ConstBundles : ~IsZero(c.period) /\ ~IsZero(c.M_M) /\ ~IsZero(c.C_M)
                          /\ ~IsZero(c.M_F) /\ ~IsZero(c.C_F)}

\* Flat state arrays (n, c1..c6, T_mod, T_fuel) of float64.
StateVectors ==
    {<<n>> \o SmallDensity \o <<Tm, Tf>> :
        n \in {Np(0, 1), Np(2, 1)}, Tm \in {Np(1, 1)},
        Tf \in {Np(3, 1), Np(5, 1)}}

\* Time points at which the derivative is evaluated.
MaxTime == 1

TimePoints == {Np(i, 1) : i \in 0..MaxTime}

CallStateDeriv ==
    \E state \in StateVectors, t \in TimePoints, c \in ConstBundles :
        /\ dyn' = [fn |-> "_state_deriv",
                   args |-> [state |-> state, t |-> t, c |-> c],
                   ret |-> state_deriv(state, t, c)]
        /\ dynPrev' = NoCall
        /\ UNCHANGED <<hist, call, soln, acc>>

InitDyn ==
    /\ dyn = NoCall
    /\ dynPrev = NoCall
    /\ hist = <<>>
    /\ call = NoSolve
    /\ soln = NoSolve
    /\ acc = NoCall

NextDyn ==
    \/ CallTotalNeutronDeriv
    \/ CallDelayNeutronDeriv
    \/ CallModTempDeriv
    \/ CallFuelTempDeriv
    \/ CallStateDeriv

SpecDyn == InitDyn /\ [][NextDyn]_vars


---------------------------------------------------------------------------
(* Properties of the physics functions (specification SpecDyn).            *)

\* dn/dt as the kinetics equation states it, the sum written out.
KineticsEquation(a) ==
    LET l == a.precursor_constants
        c == a.precursor_density
    IN  Add(Mul(Div(Sub(a.rho, a.beta), a.period), a.n),
            Add(Add(Add(Add(Add(Mul(l[1], c[1]), Mul(l[2], c[2])),
                Mul(l[3], c[3])), Mul(l[4], c[4])), Mul(l[5], c[5])),
                Mul(l[6], c[6])))

\* -219026.45
ExTotalNeutronDeriv == [k |-> "fin", num |-> -4380529, den |-> 20]

\* C7: for period # 0, total_neutron_deriv returns
\* ((rho - beta) / period) * n + sum_i precursor_constants[i] * precursor_density[i],
\* and the docstring's example evaluates to -219026.45 (in exact arithmetic;
\* the double the code returns prints as -219026.44999999998).
C7_TotalNeutronDeriv ==
    (dyn.fn = "total_neutron_deriv" /\ ~IsZero(dyn.args.period)) =>
        /\ Val(dyn.ret) = Val(KineticsEquation(dyn.args))
        /\ (dyn.args.rho = ExRho) => (Val(dyn.ret) = ExTotalNeutronDeriv)

\* C7's case: the documented example was evaluated and gave -219026.45.
C7_Witness ==
    /\ dyn.fn = "total_neutron_deriv"
    /\ dyn.args.rho = ExRho /\ dyn.args.beta = ExBeta
    /\ dyn.args.period = ExPeriod /\ dyn.args.n = ExN
    /\ dyn.args.precursor_density = ExPrecursorDensity
    /\ Val(dyn.ret) = ExTotalNeutronDeriv

\* Two calls of mod_temp_deriv that differ at most in T_fuel.
SameButTFuel(a, b) == [a EXCEPT !.T_fuel = b.T_fuel] = b

\* Two calls of fuel_temp_deriv that differ at most in T_fuel and T_mod.
SameButTemps(a, b) == [a EXCEPT !.T_fuel = b.T_fuel, !.T_mod = b.T_mod] = b

\* C8: with h = 0 and non-zero masses and heat capacities, mod_temp_deriv
\* returns the same value for every T_fuel, and fuel_temp_deriv returns
\* n / (M_F * C_F) for every T_fuel and T_mod.
C8_DecoupledAtZeroH ==
    /\ (/\ dyn.fn = "mod_temp_deriv" /\ dynPrev.fn = "mod_temp_deriv"
        /\ IsZero(dyn.args.h)
        /\ ~IsZero(dyn.args.M_M) /\ ~IsZero(dyn.args.C_M)
        /\ SameButTFuel(dyn.args, dynPrev.args))
       => dyn.ret = dynPrev.ret
    /\ (/\ dyn.fn = "fuel_temp_deriv" /\ dynPrev.fn = "fuel_temp_deriv"
        /\ IsZero(dyn.args.h)
        /\ ~IsZero(dyn.args.M_F) /\ ~IsZero(dyn.args.C_F)
        /\ SameButTemps(dyn.args, dynPrev.args))
       => /\ dyn.ret = dynPrev.ret
          /\ IsFin(dyn.ret)
          /\ dyn.ret.num * dyn.args.M_F.num * dyn.args.C_F.num * dyn.args.n.den
               = dyn.args.n.num * dyn.ret.den * dyn.args.M_F.den * dyn.args.C_F.den

\* C8's case: two fuel_temp_deriv calls with h = 0 at different fuel and
\* moderator temperatures.
C8_Witness ==
    /\ dyn.fn = "fuel_temp_deriv" /\ dynPrev.fn = "fuel_temp_deriv"
    /\ IsZero(dyn.args.h) /\ ~IsZero(dyn.args.M_F) /\ ~IsZero(dyn.args.C_F)
    /\ SameButTemps(dyn.args, dynPrev.args)
    /\ dyn.args.T_fuel # dynPrev.args.T_fuel
    /\ dyn.args.T_mod # dynPrev.args.T_mod
    /\ dyn.ret = dynPrev.ret

\* The last call had a zero period, mass or heat capacity among the
\* arguments its divisions use.
ZeroDivisorCall ==
    \/ dyn.fn \in {"total_neutron_deriv", "delay_neutron_deriv"}
         /\ IsZero(dyn.args.period)
    \/ dyn.fn = "mod_temp_deriv" /\ (IsZero(dyn.args.M_M) \/ IsZero(dyn.args.C_M))
    \/ dyn.fn = "fuel_temp_deriv" /\ (IsZero(dyn.args.M_F) \/ IsZero(dyn.args.C_F))
    \/ dyn.fn = "_state_deriv"
         /\ \/ IsZero(dyn.args.c.period)
            \/ IsZero(dyn.args.c.M_M) \/ IsZero(dyn.args.c.C_M)
            \/ IsZero(dyn.args.c.M_F) \/ IsZero(dyn.args.c.C_F)

\* A result that is, or holds, an infinity or a NaN.
CarriesSpecial(r) ==
    IF r.k = "arr" THEN \E i \in 1..Len(r.v) : IsSpecial(r.v[i])
    ELSE IsSpecial(r)

\* C5: a zero period, mass or heat capacity never raises in the physics
\* functions or in _state_deriv; the result carries an infinity or a NaN.
C5_NeverRaises ==
    ZeroDivisorCall => (~IsRaise(dyn.ret) /\ CarriesSpecial(dyn.ret))


---------------------------------------------------------------------------
(* The integrator at work (specification SpecOde): odeint calls the        *)
(* derivative function at states and times of its own choosing.  hist is   *)
(* the log of the calls of one integration.  functools.partial binds the   *)
(* keyword arguments once: call.bound is their value when bound, call.c    *)
(* the value the bound objects hold now, which is what each call receives. *)

\* The most calls of one integration that are logged.
MaxCalls == 3

\* An exception raised by the derivative function ends the integration.
Raised == \E i \in 1..Len(hist) : IsRaise(hist[i].ret)

OdeintEvaluate ==
    /\ call.pc = "integrating"
    /\ Len(hist) < MaxCalls
    /\ ~Raised
    /\ \E state \in StateVectors, t \in TimePoints :
        LET ret == state_deriv(state, t, call.c)
        IN  /\ hist' = Append(hist, [state |-> state, t |-> t,
                                     c |-> call.bound, ret |-> ret])
            /\ dyn' = [fn |-> "_state_deriv",
                       args |-> [state |-> state, t |-> t, c |-> call.c],
                       ret |-> ret,
                       state_after |-> state_after_deriv(state, t, call.c)]
            /\ call' = [call EXCEPT !.c = consts_after_deriv(state, t, call.c)]
    /\ UNCHANGED <<dynPrev, soln, acc>>

OdeintReturn ==
    /\ call.pc = "integrating"
    /\ call' = [call EXCEPT !.pc = IF Raised THEN "error" ELSE "done"]
    /\ UNCHANGED <<dyn, dynPrev, hist, soln, acc>>

InitOde ==
    /\ dyn = NoCall
    /\ dynPrev = NoCall
    /\ hist = <<>>
    /\ \E c \in ConstBundles :
           call = [pc |-> "integrating", c |-> c, bound |-> c]
    /\ soln = NoSolve
    /\ acc = NoCall

NextOde == OdeintEvaluate \/ OdeintReturn

SpecOde == InitOde /\ [][NextOde]_vars

\* C10: a call of _state_deriv leaves its input array and the bound
\* constants as they were before the call, and any two calls of one
\* integration made with equal state arrays and the same bound constants
\* returned equal results, whatever their time points and whatever calls
\* were made in between.
C10_Stateless ==
    /\ dyn.fn = "_state_deriv" =>
          /\ dyn.state_after = dyn.args.state
          /\ call.c = dyn.args.c
          /\ call.c = call.bound
    /\ \A i, j \in 1..Len(hist) :
          (hist[i].state = hist[j].state /\ hist[i].c = hist[j].c)
              => hist[i].ret = hist[j].ret

\* C10's case: the same state evaluated twice, at different times, with a
\* call on another state in between.
C10_Witness ==
    /\ Len(hist) = 3
    /\ hist[1].state = hist[3].state
    /\ hist[1].t # hist[3].t
    /\ hist[2].state # hist[1].state
    /\ hist[1].ret.k = "arr"
    /\ hist[1].ret = hist[3].ret
    /\ hist[2].ret # hist[1].ret
    /\ dyn.state_after = hist[3].state
    /\ call.c = call.bound


---------------------------------------------------------------------------
(* The driver.                                                             *)

\* The flat initial state with the two temperatures in the wrong order.
initial_state_swapped(n_initial, precursor_density_initial, T_mod0, T_fuel0) ==
    <<ToNp(n_initial)>> \o precursor_density_initial
        \o <<ToNp(T_fuel0), ToNp(T_mod0)>>

\* np.concatenate((np.array([n_initial]), precursor_density_initial,
\*                 np.array([T_mod0, T_fuel0])), axis=0)
initial_state(n_initial, precursor_density_initial, T_mod0, T_fuel0) ==
    <<ToNp(n_initial)>> \o precursor_density_initial
        \o <<ToNp(T_mod0), ToNp(T_fuel0)>>

\* np.linspace(start, stop, num): num points from start to stop, both
\* included; num = 1 gives <<start>>, a negative num raises ValueError.
linspace(start, stop, num) ==
    IF num < 0 THEN Raise("ValueError")
    ELSE Arr([i \in 1..num |->
                 IF i = 1 THEN ToNp(start)
                 ELSE IF i = num THEN ToNp(stop)
                 ELSE ToNp(Add(start, Mul(Py(i - 1, 1),
                                          Div(Sub(stop, start), Py(num - 1, 1)))))])

\* The length of np.arange(start, stop, step) for step # 0 and integer
\* start and stop: ceil((stop - start) / step), the quotient a double.
arange_length(start, stop, step) ==
    LET span == Sub(stop, start)
    IN  IF IsZero(span) \/ SignOf(span) # SignOf(step) THEN 0
        ELSE F64Ceil(F64Div(F64FromRational(Abs(span.num), span.den),
                            F64FromRational(Abs(step.num), step.den)))

\* np.arange(start, stop, step): start + i * step for i below the length;
\* a zero step raises ZeroDivisionError when the length is computed.
arange(start, stop, step) ==
    IF IsZero(step) THEN Raise("ZeroDivisionError")
    ELSE Arr([i \in 1..arange_length(start, stop, step) |->
                 ToNp(Add(start, Mul(Py(i - 1, 1), step)))])

\* The integrator's value of state component col at output time row > 0.
Cell(row, col) == [k |-> "cell", row |-> row, col |-> col]

\* The derivative odeint evaluates first, at the initial state, when there
\* is something to integrate; "none" when there is not (a single time
\* point, or a first step of length zero).
first_deriv(c, y0, t) ==
    IF Len(t) >= 2 /\ t[1] # t[2] THEN state_deriv(y0, t[1], c)
    ELSE [k |-> "none"]

\* scipy.integrate.odeint(deriv_func, y0, t), by its contract: a grid with
\* one row per time point and one column per state component, the first
\* row y0; an exception of the derivative function propagates.
odeint(c, y0, t) ==
    IF IsRaise(first_deriv(c, y0, t)) THEN first_deriv(c, y0, t)
    ELSE Arr([r \in 1..Len(t) |->
                 IF r = 1 THEN y0
                 ELSE [j \in 1..Len(y0) |-> Cell(r - 1, j - 1)]])

\* solve: what it returns or raises.  a holds its arguments.
solve(a) ==
    LET y0 == initial_state(a.n_initial, a.precursor_density_initial,
                            a.T_mod0, a.T_fuel0)
        t == linspace(a.t_start, a.t_max, a.num_iters)
        res == odeint(a.c, y0, t.v)
        step == Div(Sub(a.t_max, a.t_start), Py(a.num_iters, 1))
        st == arange(a.t_start, a.t_max, step)
    IN  IF IsRaise(t) THEN [pc |-> "raised", exc |-> t.exc]
        ELSE IF IsRaise(res) THEN [pc |-> "raised", exc |-> res.exc]
        ELSE IF IsRaise(step) THEN [pc |-> "raised", exc |-> step.exc]
        ELSE IF IsRaise(st) THEN [pc |-> "raised", exc |-> st.exc]
        ELSE [pc |-> "returned", t |-> st.v, array |-> res.v]

\* The locals of solve, as far as the call got.
solve_locals(a) ==
    LET y0 == initial_state(a.n_initial, a.precursor_density_initial,
                            a.T_mod0, a.T_fuel0)
        t == linspace(a.t_start, a.t_max, a.num_iters)
    IN  [pc |-> "solved", t |-> t, args |-> a, initial_state |-> y0,
         first_deriv |-> IF IsRaise(t) THEN [k |-> "none"]
                         ELSE first_deriv(a.c, y0, t.v)]

---------------------------------------------------------------------------
(* The Solution view of solver.py.  A two-dimensional array is a sequence  *)
(* of rows; s is [array, t].                                               *)

\* array[:, j]
Column(array, j) ==
    IF IsRaise(PyIndex(array[1], j)) THEN PyIndex(array[1], j)
    ELSE Arr([r \in 1..Len(array) |-> PyIndex(array[r], j)])

\* array[:, start:stop]
ColumnSlice(array, start, stop) ==
    [r \in 1..Len(array) |-> PySlice(array[r], start, stop)]

Solution_neutron_population(s) == Column(s.array, 0)

Solution_precursor_densities(s) == Arr(ColumnSlice(s.array, 1, -2))

Solution_num_densities(s) == Len(Solution_precursor_densities(s).v[1])

Solution_precursor_density(s, i) ==
    Column(Solution_precursor_densities(s).v, i - 1)

Solution_T_mod(s) == Column(s.array, 7)

Solution_T_fuel(s) == Column(s.array, 8)

---------------------------------------------------------------------------
(* The Solution view of solution.py, which names its columns by            *)
(* StateComponent (eark/state.py): the fields of State in table order.     *)

StateComponent ==
    [NeutronPopulation |-> 0, PrecursorDensity1 |-> 1, PrecursorDensity2 |-> 2,
     PrecursorDensity3 |-> 3, PrecursorDensity4 |-> 4, PrecursorDensity5 |-> 5,
     PrecursorDensity6 |-> 6, TMod |-> 7, TFuel |-> 8, RhoFuelTemp |-> 9,
     RhoModTemp |-> 10, DrumAngle |-> 11, RhoConDrum |-> 12]

\* The number of State fields.
NumStateFields == 13

View_neutron_population(s) == Column(s.array, StateComponent.NeutronPopulation)

View_precursor_densities(s) ==
    Arr(ColumnSlice(s.array, StateComponent.PrecursorDensity1, StateComponent.TMod))

View_precursor_density(s, i) == Column(View_precursor_densities(s).v, i - 1)

View_temp_mod(s) == Column(s.array, StateComponent.TMod)

View_temp_fuel(s) == Column(s.array, StateComponent.TFuel)

View_rho_fuel_temp(s) == Column(s.array, StateComponent.RhoFuelTemp)

View_rho_mod_temp(s) == Column(s.array, StateComponent.RhoModTemp)

View_drum_angle(s) == Column(s.array, StateComponent.DrumAngle)

View_rho_con_drum(s) == Column(s.array, StateComponent.RhoConDrum)


---------------------------------------------------------------------------
(* One call of solve and the reading of its Solution (specification        *)
(* SpecSolve).  call holds the locals of solve, soln what it returned or   *)
(* raised, acc the last accessor read.                                     *)

\* The latest start time.
MaxStart == 1

\* The latest end time.
MaxStop == 1

\* The largest sample count.
MaxIters == 49

\* The largest precursor index asked for; the smallest is -1.
MaxIndex == 7

\* Bundles with non-zero masses and heat capacities; the period may be
\* zero.
SolveBundles ==
    {c \in ConstBundles : ~IsZero(c.M_M) /\ ~IsZero(c.C_M)
                          /\ ~IsZero(c.M_F) /\ ~IsZero(c.C_F)}

SolveArgs ==
    [c : SolveBundles, n_initial : {Py(2, 1)},
     precursor_density_initial : {SmallDensity},
     T_mod0 : {Py(1, 1)}, T_fuel0 : {Py(3, 1)},
     t_start : {Py(i, 1) : i \in 0..MaxStart},
     t_max : {Py(i, 1) : i \in 0..MaxStop},
     num_iters : -1..MaxIters]

Solve ==
    /\ call.pc = "idle"
    /\ \E a \in SolveArgs :
        /\ call' = solve_locals(a)
        /\ soln' = solve(a)
    /\ UNCHANGED <<dyn, dynPrev, hist, acc>>

\* An accessor of the returned Solution is read.
Read(name, i, ret) ==
    /\ soln.pc = "returned"
    /\ acc' = [fn |-> name, i |-> i, ret |-> ret]
    /\ UNCHANGED <<dyn, dynPrev, hist, call, soln>>

GetNeutronPopulation ==
    Read("neutron_population", 0, Solution_neutron_population(soln))

GetPrecursorDensities ==
    Read("precursor_densities", 0, Solution_precursor_densities(soln))

GetNumDensities ==
    Read("num_densities", 0, Solution_num_densities(soln))

GetPrecursorDensity ==
    \E i \in -1..MaxIndex :
        Read("precursor_density", i, Solution_precursor_density(soln, i))

GetTMod == Read("T_mod", 0, Solution_T_mod(soln))

GetTFuel == Read("T_fuel", 0, Solution_T_fuel(soln))

\* The accessors of solution.py's Solution over the same grid.
ViewSeries ==
    \/ Read("view.neutron_population", 0, View_neutron_population(soln))
    \/ Read("view.precursor_densities", 0, View_precursor_densities(soln))
    \/ Read("view.temp_mod", 0, View_temp_mod(soln))
    \/ Read("view.temp_fuel", 0, View_temp_fuel(soln))
    \/ Read("view.rho_fuel_temp", 0, View_rho_fuel_temp(soln))
    \/ Read("view.rho_mod_temp", 0, View_rho_mod_temp(soln))
    \/ Read("view.drum_angle", 0, View_drum_angle(soln))
    \/ Read("view.rho_con_drum", 0, View_rho_con_drum(soln))

ViewPrecursorDensity ==
    \E i \in -1..MaxIndex :
        Read("view.precursor_density", i, View_precursor_density(soln, i))

InitSolve ==
    /\ dyn = NoCall
    /\ dynPrev = NoCall
    /\ hist = <<>>
    /\ call = NoSolve
    /\ soln = NoSolve
    /\ acc = NoCall

NextSolve ==
    \/ Solve
    \/ GetNeutronPopulation
    \/ GetPrecursorDensities
    \/ GetNumDensities
    \/ GetPrecursorDensity
    \/ GetTMod
    \/ GetTFuel
    \/ ViewSeries
    \/ ViewPrecursorDensity

SpecSolve == InitSolve /\ [][NextSolve]_vars

---------------------------------------------------------------------------
(* Properties of solve and of the Solution it returns.                     *)

\* solve was called with a well-formed time span and returned a Solution.
ValidReturn ==
    /\ call.pc = "solved"
    /\ SignOf(Sub(call.args.t_max, call.args.t_start)) = 1
    /\ call.args.num_iters >= 2
    /\ soln.pc = "returned"

\* solve was called with a malformed time span.
MalformedSpan ==
    /\ call.pc = "solved"
    /\ \/ SignOf(Sub(call.args.t_max, call.args.t_start)) # 1
       \/ call.args.num_iters < 2

\* C1: for every call with t_max > t_start and num_iters >= 2 the time
\* sequence stored in the returned Solution is, element for element, the
\* time sequence solve passed to the integrator.
C1_SameTimeSequence == ValidReturn => soln.t = call.t.v

\* C2: for every valid call the grid of the returned Solution has as many
\* rows as Solution.t has elements, and that number is num_iters.
C2_GridShape ==
    ValidReturn =>
        /\ Len(soln.array) = Len(soln.t)
        /\ Len(soln.t) = call.args.num_iters

\* Column j (counted from 0) of the six-column precursor block.
BlockColumn(s, j) ==
    Arr([r \in 1..Len(s.array) |-> Solution_precursor_densities(s).v[r][j + 1]])

\* C3: precursor_density(i), of either Solution class, returns column i-1
\* of the precursor block for i in 1..6 and fails with an out-of-range
\* error for every other index.
C3_PrecursorIndex ==
    acc.fn \in {"precursor_density", "view.precursor_density"} =>
        IF acc.i \in 1..6 THEN acc.ret = BlockColumn(soln, acc.i - 1)
        ELSE acc.ret = Raise("IndexError")

\* C4: solve raises, and returns no Solution, whenever t_max <= t_start or
\* num_iters < 2.
C4_MalformedSpanRaises == MalformedSpan => soln.pc = "raised"

\* C6: for every valid call the grid has one column per State field, in
\* table order, so every accessor named after a State field reads an
\* existing column.
C6_GridHasStateFields ==
    ValidReturn =>
        /\ \A r \in 1..Len(soln.array) : Len(soln.array[r]) = NumStateFields
        /\ \A f \in DOMAIN StateComponent :
               ~IsRaise(Column(soln.array, StateComponent[f]))
        /\ (acc.fn \in {"view.rho_fuel_temp", "view.rho_mod_temp",
                        "view.drum_angle", "view.rho_con_drum"}
               => ~IsRaise(acc.ret))

\* The series an accessor returns for column col: the initial value of
\* that state component, then the integrator's cells of that column.
IsSeriesOf(ret, col, initial) ==
    /\ ret.k = "arr"
    /\ Len(ret.v) = Len(soln.array)
    /\ Val(ret.v[1]) = Val(initial)
    /\ \A r \in 2..Len(ret.v) : ret.v[r] = Cell(r - 1, col)

\* C9: the flat layout is one and the same in solve's packing, in what
\* _state_deriv reads and returns, and in the Solution accessors: component
\* 0 is n, 1..6 the precursor densities, 7 T_mod, 8 T_fuel.
C9_LayoutAgrees ==
    ValidReturn =>
        LET a == call.args
            c == call.args.c
            y0 == call.initial_state
            d == call.first_deriv
            pd == a.precursor_density_initial
            dcdt == delay_neutron_deriv(c.beta_vector, c.period, a.n_initial,
                                        c.precursor_constants, pd)
        IN  /\ Len(y0) = 9
            /\ Val(y0[1]) = Val(a.n_initial)
            /\ \A i \in 1..6 : y0[i + 1] = pd[i]
            /\ Val(y0[8]) = Val(a.T_mod0)
            /\ Val(y0[9]) = Val(a.T_fuel0)
            /\ d.k = "arr"
            /\ Len(d.v) = Len(y0)
            /\ Val(d.v[1]) = Val(total_neutron_deriv(c.rho, c.total_beta,
                                     c.period, a.n_initial,
                                     c.precursor_constants, pd))
            /\ \A i \in 1..6 : Val(d.v[i + 1]) = Val(dcdt.v[i])
            /\ Val(d.v[8]) = Val(mod_temp_deriv(c.h, c.M_M, c.C_M, c.W_M,
                                     a.T_fuel0, a.T_mod0, c.T_in))
            /\ Val(d.v[9]) = Val(fuel_temp_deriv(a.n_initial, c.M_F, c.C_F,
                                     c.h, a.T_fuel0, a.T_mod0))
            /\ (acc.fn = "neutron_population"
                    => IsSeriesOf(acc.ret, 0, a.n_initial))
            /\ (acc.fn = "precursor_densities"
                    => /\ acc.ret.v[1] = pd
                       /\ \A r \in 2..Len(acc.ret.v) :
                              acc.ret.v[r] = [j \in 1..6 |-> Cell(r - 1, j)])
            /\ (acc.fn = "T_mod" => IsSeriesOf(acc.ret, 7, a.T_mod0))
            /\ (acc.fn = "T_fuel" => IsSeriesOf(acc.ret, 8, a.T_fuel0))

\* C9's case: a valid call returned, the first derivative was evaluated on
\* the packed state, and T_mod was read from the grid.
C9_Witness ==
    /\ ValidReturn
    /\ call.first_deriv.k = "arr"
    /\ Len(soln.array) >= 3
    /\ acc.fn = "T_mod"
    /\ IsSeriesOf(acc.ret, 7, call.args.T_mod0)
    /\ Val(call.args.T_mod0) # Val(call.args.T_fuel0)

=============================================================================
